---- MODULE Spec2Model ----
(***************************************************************************)
(* Model of pydca/plmdca/plmdcaBackend.cpp: the extern "C" entry points    *)
(* plmdcaBackend (Run Optimization) and freeFieldsAndCouplings (Release    *)
(* Result), the local class ObjectiveFunction (run, evaluate, progress)    *)
(* and the function-local statics plmdca_inst, num_iterations, logging.    *)
(***************************************************************************)
EXTENDS Integers, Sequences, FiniteSets, TLC

(***************************************************************************)
(* Unsigned machine arithmetic.  Values are little-endian sequences of     *)
(* base-256 digits without high zero digits, so that 32-bit unsigned       *)
(* products (and the exact mathematical values they are compared with)     *)
(* are computed without leaving the range of the checker's integers.       *)
(***************************************************************************)
RECURSIVE Norm(_)
Norm(a) == IF a = <<>> THEN <<>>
           ELSE IF a[Len(a)] = 0 THEN Norm(SubSeq(a, 1, Len(a) - 1))
           ELSE a

RECURSIVE BigOf(_)
BigOf(n) == IF n = 0 THEN <<>> ELSE <<n % 256>> \o BigOf(n \div 256)

RECURSIVE AddC(_, _, _)
AddC(a, b, c) ==
    IF a = <<>> /\ b = <<>>
    THEN (IF c = 0 THEN <<>> ELSE <<c>>)
    ELSE LET x == IF a = <<>> THEN 0 ELSE Head(a)
             y == IF b = <<>> THEN 0 ELSE Head(b)
             s == x + y + c
         IN  <<s % 256>> \o AddC(IF a = <<>> THEN <<>> ELSE Tail(a),
                                 IF b = <<>> THEN <<>> ELSE Tail(b),
                                 s \div 256)

BigAdd(a, b) == Norm(AddC(a, b, 0))

RECURSIVE MulDigit(_, _, _)
MulDigit(a, d, c) ==
    IF a = <<>>
    THEN (IF c = 0 THEN <<>> ELSE <<c>>)
    ELSE LET p == Head(a) * d + c
         IN  <<p % 256>> \o MulDigit(Tail(a), d, p \div 256)

RECURSIVE BigMul(_, _)
BigMul(a, b) ==
    IF b = <<>> \/ a = <<>> THEN <<>>
    ELSE Norm(AddC(MulDigit(a, Head(b), 0), <<0>> \o BigMul(a, Tail(b)), 0))

\* a \div 2, from the most significant digit down
RECURSIVE HalfFrom(_, _, _)
HalfFrom(a, i, r) ==
    IF i = 0 THEN <<>>
    ELSE LET v == r * 256 + a[i]
         IN  HalfFrom(a, i - 1, v % 2) \o <<v \div 2>>

BigHalf(a) == Norm(HalfFrom(a, Len(a), 0))

\* a - 1 for a > 0
RECURSIVE BigDec(_)
BigDec(a) == IF Head(a) > 0 THEN <<Head(a) - 1>> \o Tail(a)
             ELSE <<255>> \o BigDec(Tail(a))

\* reduction mod 2^32: the four low digits
Wrap32(a) == Norm(SubSeq(a, 1, IF Len(a) < 4 THEN Len(a) ELSE 4))

U32Mul(a, b) == Wrap32(BigMul(a, b))
U32Add(a, b) == Wrap32(BigAdd(a, b))
\* a - 1 in unsigned 32-bit arithmetic: 0 - 1 wraps to 2^32 - 1
U32Dec(a) == IF a = <<>> THEN <<255, 255, 255, 255>> ELSE Norm(BigDec(a))

Digit(a, i) == IF i <= Len(a) THEN a[i] ELSE 0

\* conversion of a 32-bit unsigned value to int (two's complement)
ToInt32(a) ==
    LET low31 == Digit(a, 1) + 256 * Digit(a, 2) + 65536 * Digit(a, 3)
                   + 16777216 * (Digit(a, 4) % 128)
    IN  IF Digit(a, 4) >= 128 THEN (low31 - 2147483647) - 1 ELSE low31

(***************************************************************************)
(* plmdcaBackend, line 47: the parameter count, every operand converted to *)
(* unsigned int, products taken left to right, the division by 2 last.     *)
(***************************************************************************)
total_num_params(seqs_len, num_site_states) ==
    LET L == BigOf(seqs_len)
        Q == BigOf(num_site_states)
    IN  ToInt32(U32Add(U32Mul(L, Q),
                       BigHalf(U32Mul(U32Mul(U32Mul(L, U32Dec(L)), Q), Q))))

\* the exact value L*Q + L*(L-1)/2*Q^2 over the naturals
ExactN(seqs_len, num_site_states) ==
    LET L == BigOf(seqs_len)
        Q == BigOf(num_site_states)
        pairs == IF seqs_len = 0 THEN <<>> ELSE BigHalf(BigMul(L, BigDec(L)))
    IN  BigAdd(BigMul(L, Q), BigMul(pairs, BigMul(Q, Q)))

(***************************************************************************)
(* Bounds of the model and the inputs the host passes.                     *)
(***************************************************************************)
MaxCalls == 2
MaxIter == 2

NULL == 0

\* alignments the host may pass: file, sequence length, number of site states
Alignments ==
    { [msa_file |-> "a.fasta", seqs_len |-> 3, num_site_states |-> 2],
      [msa_file |-> "b.fasta", seqs_len |-> 2, num_site_states |-> 3] }

Config(al, mi, nt, vb) ==
    [msa_file |-> al.msa_file, seqs_len |-> al.seqs_len,
     num_site_states |-> al.num_site_states, max_iteration |-> mi,
     num_threads |-> nt, verbose |-> vb]

\* argument lists of plmdcaBackend: every alignment with the iteration caps
\* 0, 1 and MaxIter on one thread, with diagnostics on one thread, and with
\* three threads
Configs ==
    { Config(al, mi, 1, FALSE) : al \in Alignments, mi \in {0, 1, MaxIter} }
    \cup { Config(al, MaxIter, 1, TRUE) : al \in Alignments }
    \cup { Config(al, MaxIter, 3, FALSE) : al \in Alignments }

\* sequence lengths and state counts for the parameter count alone
SeqLens == {0, 1, 2, 3, 100, 3000, 3200, 46341, 65536, 65537, 92682}
SiteStates == {1, 2, 5, 21, 65535}
ParamConfigs ==
    { Config([msa_file |-> "p.fasta", seqs_len |-> l, num_site_states |-> q],
             0, 1, FALSE) : l \in SeqLens, q \in SiteStates }

\* zero-initialised storage of a function-local static / a dead frame
NoArgs == [msa_file |-> "", seqs_len |-> 0, num_site_states |-> 0,
           max_iteration |-> 0, num_threads |-> 0, verbose |-> FALSE]
NoInst == [msa_file |-> "", seqs_len |-> 0, num_site_states |-> 0,
           num_threads |-> 0]

VARIABLES
    openmp,          \* _OPENMP defined in this build
    statics_guard,   \* the statics of lines 48-50 have been initialised
    plmdca_inst,     \* static PlmDCA plmdca_inst: its constructor arguments
    num_iterations,  \* static int num_iterations
    logging,         \* static auto logging
    pc,              \* position of the host / of the call in progress
    args,            \* arguments of the call in progress
    N,               \* total_num_params / N of the call in progress
    m_x,             \* ObjectiveFunction::m_x
    param,           \* lbfgs_parameter_t param of run
    ret,             \* value run returns
    k,               \* Driver: iteration index
    ls,              \* Driver: evaluations in the current line search
    prog_ret,        \* Driver: value the last progress callback returned
    heap,            \* blocks allocated so far, by handle, with the Engine
                     \* instance and the cap their contents are computed with
    heap_ok,         \* no undefined heap operation has damaged the heap
    owned,           \* handles the host holds and has not released
    result,          \* last value plmdcaBackend handed to the host
    outcome,         \* how the last host call ended
    status_out,      \* status the host received from the last call
    ncalls,          \* number of plmdcaBackend calls made
    free_arg,        \* h_and_J of the last freeFieldsAndCouplings call
    cnt,             \* steps taken by the call in progress
    out              \* diagnostics written by the call in progress

vars == <<openmp, statics_guard, plmdca_inst, num_iterations, logging, pc,
          args, N, m_x, param, ret, k, ls, prog_ret, heap, heap_ok, owned,
          result,
          outcome, status_out, ncalls, free_arg, cnt, out>>

statics == <<statics_guard, plmdca_inst, num_iterations, logging>>
frame == <<args, N, m_x, param, ret, k, ls, prog_ret>>
host == <<owned, result, outcome, status_out, ncalls, free_arg>>

NoCnt == [alloc |-> 0, init |-> 0, lbfgs |-> 0, evaluate |-> 0, progress |-> 0]
NoParam == [epsilon |-> "", max_iterations |-> 0, max_linesearch |-> 0,
            ftol |-> "", m |-> 0]
NoStatus == <<>>

Init ==
    /\ openmp \in BOOLEAN
    /\ statics_guard = FALSE
    /\ plmdca_inst = NoInst
    /\ num_iterations = 0
    /\ logging = FALSE
    /\ pc = "idle"
    /\ args = NoArgs
    /\ N = 0
    /\ m_x = NULL
    /\ param = NoParam
    /\ ret = 0
    /\ k = 0
    /\ ls = 0
    /\ prog_ret = 0
    /\ heap = <<>>
    /\ heap_ok = TRUE
    /\ owned = {}
    /\ result = NULL
    /\ outcome = "none"
    /\ status_out = NoStatus
    /\ ncalls = 0
    /\ free_arg = NULL
    /\ cnt = NoCnt
    /\ out = {}

(***************************************************************************)
(* plmdcaBackend, lines 38-45: the thread-count check.                     *)
(***************************************************************************)
\* variant: the check compares against a larger thread count
ThreadsRejected_loose(omp, num_threads) == ~omp /\ num_threads > 3

ThreadsRejected(omp, num_threads) == ~omp /\ num_threads > 1

\* entry of plmdcaBackend: the check either throws std::runtime_error to the
\* host or lets the call through to line 47
plmdcaBackend(cfg) ==
    /\ pc = "idle"
    /\ ncalls < MaxCalls
    /\ ncalls' = ncalls + 1
    /\ args' = cfg
    /\ cnt' = NoCnt
    /\ N' = 0 /\ m_x' = NULL /\ param' = NoParam
    /\ ret' = 0 /\ k' = 0 /\ ls' = 0 /\ prog_ret' = 0
    /\ result' = NULL
    /\ status_out' = NoStatus
    /\ IF ThreadsRejected(openmp, cfg.num_threads)
       THEN /\ out' = {"Cannot set multiple threads"}
            /\ outcome' = "runtime_error"
            /\ pc' = "idle"
       ELSE /\ out' = {}
            /\ outcome' = "running"
            /\ pc' = "statics"
    /\ free_arg' = NULL
    /\ UNCHANGED <<openmp, statics, heap, heap_ok, owned>>

(***************************************************************************)
(* The Gradient Engine (class PlmDCA, include/plmdca.h).  The number of    *)
(* entries initFieldsAndCouplings writes and gradient reads and writes is  *)
(* the parameter count of the instance's own sequence length and states.   *)
(***************************************************************************)
numParams(inst) == ExactN(inst.seqs_len, inst.num_site_states)

\* a block of n entries holds cnt entries
Fits(n, count) == count = BigOf(n) \/ Len(count) < Len(BigOf(n))
                  \/ (Len(count) = Len(BigOf(n)) /\
                      \E i \in 1..Len(count) :
                         /\ count[i] < BigOf(n)[i]
                         /\ \A j \in (i+1)..Len(count) : count[j] = BigOf(n)[j])

\* results of an access of count entries to block h: within the block the
\* heap stays as it is; beyond its end, or through NULL, the behaviour is
\* undefined
AccessOutcomes(h, count) ==
    IF h # NULL /\ Fits(heap[h].len, count) THEN {heap_ok}
    ELSE {heap_ok, FALSE}

(***************************************************************************)
(* plmdcaBackend, lines 47-50 and 165-166: the parameter count of this     *)
(* call; the statics are initialised by the first call that gets here.     *)
(***************************************************************************)
\* the constructor call of line 48
PlmDCA(a) == [msa_file |-> a.msa_file, seqs_len |-> a.seqs_len,
              num_site_states |-> a.num_site_states,
              num_threads |-> a.num_threads]

InitStatics ==
    /\ pc = "statics"
    /\ N' = total_num_params(args.seqs_len, args.num_site_states)
    /\ IF statics_guard
       THEN UNCHANGED statics
       ELSE /\ statics_guard' = TRUE
            /\ plmdca_inst' = PlmDCA(args)
            /\ num_iterations' = args.max_iteration
            /\ logging' = args.verbose
    /\ m_x' = NULL
    /\ pc' = "run"
    /\ UNCHANGED <<openmp, args, param, prog_ret, ret, k, ls, heap, heap_ok,
                   host, cnt, out>>

(***************************************************************************)
(* ObjectiveFunction::run, lines 79-84.                                    *)
(***************************************************************************)
\* lbfgs_malloc(n): a new block of n entries, or NULL
lbfgs_malloc(n, ok) ==
    IF ok /\ n >= 0
    THEN <<[len |-> n, alloc |-> "lbfgs_malloc", state |-> "live",
            content |-> "raw", written |-> <<>>, engine |-> NoInst,
            cap |-> 0, releases |-> 0, dealloc |-> ""]>>
    ELSE <<>>

\* variant: no return after the failure message
run_alloc_fallthrough ==
    /\ pc = "run"
    /\ \E ok \in BOOLEAN :
         LET blk == lbfgs_malloc(N, ok) IN
         IF blk # <<>>
         THEN /\ heap' = heap \o blk
              /\ m_x' = Len(heap) + 1
              /\ cnt' = [cnt EXCEPT !.alloc = @ + 1]
              /\ pc' = "setup"
              /\ UNCHANGED <<ret, out>>
         ELSE /\ m_x' = NULL
              /\ out' = out \cup {"ERROR: Failed to allocate"}
              /\ pc' = "lbfgs"
              /\ UNCHANGED <<heap, cnt, ret>>
    /\ UNCHANGED <<openmp, statics, args, N, param, prog_ret, k, ls, heap_ok,
                   host>>

run_alloc ==
    /\ pc = "run"
    /\ \E ok \in BOOLEAN :
         LET blk == lbfgs_malloc(N, ok) IN
         IF blk # <<>>
         THEN /\ heap' = heap \o blk
              /\ m_x' = Len(heap) + 1
              /\ cnt' = [cnt EXCEPT !.alloc = @ + 1]
              /\ pc' = "setup"
              /\ UNCHANGED <<ret, out>>
         ELSE /\ m_x' = NULL
              /\ out' = out \cup {"ERROR: Failed to allocate"}
              /\ ret' = 1
              /\ pc' = "backend_return"
              /\ UNCHANGED <<heap, cnt>>
    /\ UNCHANGED <<openmp, statics, args, N, param, prog_ret, k, ls, heap_ok,
                   host>>

(***************************************************************************)
(* ObjectiveFunction::run, lines 86-95: the Driver's parameters and the    *)
(* Engine's initial guess.                                                 *)
(***************************************************************************)
max_linesearch == 5

\* variant: the call of initFieldsAndCouplings is missing
run_setup_noinit ==
    /\ pc = "setup"
    /\ param' = [epsilon |-> "1E-3", max_iterations |-> num_iterations,
                 max_linesearch |-> max_linesearch, ftol |-> "1E-4", m |-> 5]
    /\ pc' = "lbfgs"
    /\ UNCHANGED <<openmp, statics, args, N, m_x, ret, k, ls, prog_ret, heap,
                   heap_ok, host, cnt, out>>

\* variant: the initial guess is written again after param is filled
run_setup_reinit ==
    /\ pc = "setup"
    /\ param' = [epsilon |-> "1E-3", max_iterations |-> num_iterations,
                 max_linesearch |-> max_linesearch, ftol |-> "1E-4", m |-> 5]
    /\ heap' = [heap EXCEPT ![m_x].content = "init",
                            ![m_x].written = numParams(plmdca_inst),
                            ![m_x].engine = plmdca_inst,
                            ![m_x].cap = num_iterations]
    /\ heap_ok' \in AccessOutcomes(m_x, numParams(plmdca_inst))
    /\ cnt' = [cnt EXCEPT !.init = @ + 2]
    /\ pc' = "lbfgs"
    /\ UNCHANGED <<openmp, statics, args, N, m_x, ret, k, ls, prog_ret, host,
                   out>>

run_setup ==
    /\ pc = "setup"
    /\ param' = [epsilon |-> "1E-3", max_iterations |-> num_iterations,
                 max_linesearch |-> max_linesearch, ftol |-> "1E-4", m |-> 5]
    /\ heap' = [heap EXCEPT ![m_x].content = "init",
                            ![m_x].written = numParams(plmdca_inst),
                            ![m_x].engine = plmdca_inst,
                            ![m_x].cap = num_iterations]
    /\ heap_ok' \in AccessOutcomes(m_x, numParams(plmdca_inst))
    /\ cnt' = [cnt EXCEPT !.init = @ + 1]
    /\ pc' = "lbfgs"
    /\ UNCHANGED <<openmp, statics, args, N, m_x, ret, k, ls, prog_ret, host,
                   out>>

(***************************************************************************)
(* The Optimizer Driver lbfgs(N, m_x, &fx, _evaluate, _progress, this,     *)
(* &param), called at line 99: an initial evaluation, then iterations of   *)
(* a line search (one evaluation per trial step) followed by one progress  *)
(* callback, until convergence, a failed line search or the iteration cap. *)
(***************************************************************************)
LBFGS_SUCCESS == 0
LBFGS_ALREADY_MINIMIZED == 2
LBFGSERR_MAXIMUMLINESEARCH == -998
LBFGSERR_MAXIMUMITERATION == -997
LBFGSERR_CANCELED == -1021

\* the Driver is entered and makes its initial evaluation
lbfgs_call ==
    /\ pc = "lbfgs"
    /\ k' = 0
    /\ ls' = 0
    /\ cnt' = [cnt EXCEPT !.lbfgs = @ + 1]
    /\ pc' = "evaluate"
    /\ UNCHANGED <<openmp, statics, args, N, m_x, param, prog_ret, ret, heap,
                   heap_ok, host, out>>

\* the Driver writes a trial point into the buffer and evaluates it: the
\* first trial of the next iteration, or a further trial of this line search
lbfgs_step ==
    /\ \/ /\ pc = "driver" /\ k = 0 /\ param.max_iterations # 0
          /\ k' = 1 /\ ls' = 1
       \/ /\ pc = "driver" /\ k >= 1 /\ ls < param.max_linesearch
          /\ k' = k /\ ls' = ls + 1
       \/ /\ pc = "progressed" /\ prog_ret = 0 /\ k < param.max_iterations
          /\ k' = k + 1 /\ ls' = 1
    /\ prog_ret' = 0
    /\ heap' = [heap EXCEPT ![m_x].content = "stepped"]
    /\ pc' = "evaluate"
    /\ UNCHANGED <<openmp, statics, args, N, m_x, param, ret, heap_ok, host,
                   cnt, out>>

\* the line search of iteration k found its point: the iteration is complete
lbfgs_accept ==
    /\ pc = "driver" /\ k >= 1
    /\ pc' = "progress"
    /\ UNCHANGED <<openmp, statics, frame, heap, heap_ok, host, cnt, out>>

\* the Driver returns its termination code to run; a nonzero value of the
\* progress callback cancels the optimization
lbfgs_return ==
    /\ \/ /\ pc = "driver" /\ k = 0 /\ param.max_iterations = 0
          /\ ret' = LBFGSERR_MAXIMUMITERATION
       \/ /\ pc = "driver" /\ k = 0
          /\ ret' = LBFGS_ALREADY_MINIMIZED
       \/ /\ pc = "driver" /\ k >= 1 /\ ls >= param.max_linesearch
          /\ ret' = LBFGSERR_MAXIMUMLINESEARCH
       \/ /\ pc = "progressed"
          /\ ret' = IF prog_ret # 0 THEN LBFGSERR_CANCELED ELSE LBFGS_SUCCESS
       \/ /\ pc = "progressed" /\ prog_ret = 0 /\ k >= param.max_iterations
          /\ ret' = LBFGSERR_MAXIMUMITERATION
    /\ pc' = "run_return"
    /\ UNCHANGED <<openmp, statics, args, N, m_x, param, prog_ret, k, ls, heap,
                   heap_ok, host, cnt, out>>

(***************************************************************************)
(* ObjectiveFunction::_evaluate / evaluate, lines 112-141: delegates to    *)
(* plmdca_inst.gradient(x, g), which reads and writes as many entries as   *)
(* the Engine instance has parameters.  There is no try block at lines     *)
(* 112-141, at line 99 or at lines 165-171: an exception of gradient       *)
(* leaves evaluate, the Driver, run and plmdcaBackend and reaches the      *)
(* host; the frame of the call ends and its buffer stays allocated.        *)
(***************************************************************************)
\* variant: evaluate reports the value through progress before it returns
evaluate_reports ==
    /\ pc = "evaluate"
    /\ heap_ok' \in AccessOutcomes(m_x, numParams(plmdca_inst))
    /\ cnt' = [cnt EXCEPT !.evaluate = @ + 1]
    /\ \E raised \in BOOLEAN :
         IF raised
         THEN /\ outcome' = "exception"
              /\ pc' = "idle"
              /\ result' = NULL
              /\ args' = NoArgs /\ N' = 0 /\ m_x' = NULL /\ param' = NoParam
              /\ ret' = 0 /\ k' = 0 /\ ls' = 0 /\ prog_ret' = 0
              /\ UNCHANGED <<owned, status_out, ncalls, free_arg>>
         ELSE /\ pc' = "progress"
              /\ UNCHANGED <<frame, host>>
    /\ UNCHANGED <<openmp, statics, heap, out>>

evaluate ==
    /\ pc = "evaluate"
    /\ heap_ok' \in AccessOutcomes(m_x, numParams(plmdca_inst))
    /\ cnt' = [cnt EXCEPT !.evaluate = @ + 1]
    /\ \E raised \in BOOLEAN :
         IF raised
         THEN /\ outcome' = "exception"
              /\ pc' = "idle"
              /\ result' = NULL
              /\ args' = NoArgs /\ N' = 0 /\ m_x' = NULL /\ param' = NoParam
              /\ ret' = 0 /\ k' = 0 /\ ls' = 0 /\ prog_ret' = 0
              /\ UNCHANGED <<owned, status_out, ncalls, free_arg>>
         ELSE /\ pc' = "driver"
              /\ UNCHANGED <<frame, host>>
    /\ UNCHANGED <<openmp, statics, heap, out>>

(***************************************************************************)
(* ObjectiveFunction::_progress / progress, lines 144-160.                 *)
(***************************************************************************)
Diagnostics == {"Cannot set multiple threads", "ERROR: Failed to allocate",
                "Iteration", "L-BFGS optimization terminated"}

\* variant: the verbose branch returns nonzero after printing
progress_at_verbose_stops(lg, o) ==
    /\ pc = "progress"
    /\ o = IF lg THEN out \cup {"Iteration"} ELSE out
    /\ prog_ret' = IF lg THEN 1 ELSE 0
    /\ cnt' = [cnt EXCEPT !.progress = @ + 1]
    /\ pc' = "progressed"
    /\ UNCHANGED <<openmp, statics, args, N, m_x, param, ret, k, ls, heap,
                   heap_ok, host>>

\* the body of progress under the value lg of logging, leaving the
\* diagnostic stream as o
progress_at(lg, o) ==
    /\ pc = "progress"
    /\ o = IF lg THEN out \cup {"Iteration"} ELSE out
    /\ prog_ret' = 0
    /\ cnt' = [cnt EXCEPT !.progress = @ + 1]
    /\ pc' = "progressed"
    /\ UNCHANGED <<openmp, statics, args, N, m_x, param, ret, k, ls, heap,
                   heap_ok, host>>

\* variant: progress rescales the point it is shown
progress_writes ==
    /\ pc = "progress"
    /\ out' = IF logging THEN out \cup {"Iteration"} ELSE out
    /\ prog_ret' = 0
    /\ cnt' = [cnt EXCEPT !.progress = @ + 1]
    /\ pc' = "progressed"
    /\ heap' = [heap EXCEPT ![m_x].content = "rescaled"]
    /\ UNCHANGED <<openmp, statics, args, N, m_x, param, ret, k, ls, heap_ok,
                   host>>

progress == progress_at(logging, out')

(***************************************************************************)
(* ObjectiveFunction::run, lines 101-107: the report and the return.       *)
(***************************************************************************)
\* lines 101-107 under the value lg of logging, leaving the diagnostic
\* stream as o
run_return_at(lg, o) ==
    /\ pc = "run_return"
    /\ o = IF lg THEN out \cup {"L-BFGS optimization terminated"} ELSE out
    /\ pc' = "backend_return"
    /\ UNCHANGED <<openmp, statics, frame, heap, heap_ok, host, cnt>>

run_return == run_return_at(logging, out')

(***************************************************************************)
(* plmdcaBackend, lines 168-171: the value of fun.run(N) is dropped and    *)
(* fun.getFieldsAndCouplings() is returned to the host.                    *)
(***************************************************************************)
getFieldsAndCouplings == m_x

\* variant: the adapter releases its buffer when fun goes out of scope
plmdcaBackend_return_frees ==
    /\ pc = "backend_return"
    /\ result' = getFieldsAndCouplings
    /\ status_out' = NoStatus
    /\ owned' = owned \cup ({getFieldsAndCouplings} \ {NULL})
    /\ heap' = [i \in DOMAIN heap |->
                  IF i = m_x THEN [heap[i] EXCEPT !.state = "freed",
                                                  !.releases = @ + 1,
                                                  !.dealloc = "lbfgs_free"]
                  ELSE heap[i]]
    /\ outcome' = "returned"
    /\ pc' = "idle"
    /\ args' = NoArgs /\ N' = 0 /\ m_x' = NULL /\ param' = NoParam
    /\ ret' = 0 /\ k' = 0 /\ ls' = 0 /\ prog_ret' = 0
    /\ UNCHANGED <<openmp, statics, heap_ok, ncalls, free_arg, cnt, out>>

\* the frame of the call (fun, N, param, ...) ends with the return
plmdcaBackend_return ==
    /\ pc = "backend_return"
    /\ result' = getFieldsAndCouplings
    /\ status_out' = NoStatus
    /\ owned' = owned \cup ({getFieldsAndCouplings} \ {NULL})
    /\ outcome' = "returned"
    /\ pc' = "idle"
    /\ args' = NoArgs /\ N' = 0 /\ m_x' = NULL /\ param' = NoParam
    /\ ret' = 0 /\ k' = 0 /\ ls' = 0 /\ prog_ret' = 0
    /\ UNCHANGED <<openmp, statics, heap, heap_ok, ncalls, free_arg, cnt, out>>

(***************************************************************************)
(* freeFieldsAndCouplings, lines 175-195.  The host passes NULL or a       *)
(* handle it holds and has not released.  delete[] of a block that new[]   *)
(* did not allocate is undefined.                                          *)
(***************************************************************************)
\* the deallocator that pairs with an allocator
Deallocator(a) ==
    CASE a = "lbfgs_malloc" -> "lbfgs_free"
      [] a = "new[]" -> "delete[]"
      [] a = "malloc" -> "free"

ReleaseOutcomes(h) ==
    IF heap[h].alloc = "new[]" THEN {heap_ok} ELSE {heap_ok, FALSE}

\* variant: the handle is dereferenced before the null test
freeFieldsAndCouplings_deref(h) ==
    /\ pc = "idle"
    /\ free_arg' = h
    /\ outcome' = "released"
    /\ IF h # NULL
       THEN /\ heap' = [heap EXCEPT ![h].state = "freed",
                                    ![h].releases = @ + 1,
                                    ![h].dealloc = "delete[]"]
            /\ heap_ok' \in ReleaseOutcomes(h)
            /\ owned' = owned \ {h}
       ELSE /\ heap_ok' = FALSE
            /\ UNCHANGED <<heap, owned>>
    /\ UNCHANGED <<openmp, statics, pc, frame, result, status_out, ncalls,
                   cnt, out>>

freeFieldsAndCouplings(h) ==
    /\ pc = "idle"
    /\ free_arg' = h
    /\ outcome' = "released"
    /\ IF h # NULL
       THEN /\ heap' = [heap EXCEPT ![h].state = "freed",
                                    ![h].releases = @ + 1,
                                    ![h].dealloc = "delete[]"]
            /\ heap_ok' \in ReleaseOutcomes(h)
            /\ owned' = owned \ {h}
       ELSE UNCHANGED <<heap, heap_ok, owned>>
    /\ UNCHANGED <<openmp, statics, pc, frame, result, status_out, ncalls,
                   cnt, out>>

(***************************************************************************)
(* The phases of a run, by the position in ObjectiveFunction::run: before  *)
(* line 80, after line 80, after line 95, inside lbfgs (line 99), and      *)
(* after it.  No run is in progress when the host is in control.           *)
(***************************************************************************)
Phases == <<"UNINITIALIZED", "BUFFER_ALLOCATED", "INITIALIZED", "OPTIMIZING",
            "TERMINATED">>

Phase ==
    CASE pc \in {"statics", "run"} -> 1
      [] pc = "setup" -> 2
      [] pc = "lbfgs" -> 3
      [] pc \in {"evaluate", "driver", "progress", "progressed"} -> 4
      [] pc \in {"run_return", "backend_return"} -> 5
      [] OTHER -> 0

PhaseName(p) == IF p = 0 THEN "NO_RUN" ELSE Phases[p]

Next ==
    \/ \E cfg \in Configs : plmdcaBackend(cfg)
    \/ InitStatics
    \/ run_alloc
    \/ run_setup
    \/ lbfgs_call
    \/ lbfgs_step
    \/ lbfgs_accept
    \/ lbfgs_return
    \/ evaluate
    \/ progress
    \/ run_return
    \/ plmdcaBackend_return
    \/ \E h \in owned \cup {NULL} : freeFieldsAndCouplings(h)

Spec == Init /\ [][Next]_vars

(***************************************************************************)
(* Properties.                                                             *)
(***************************************************************************)

\* C1: a call made in a build without parallel support and with
\* num_threads > 1 ends with the configuration error before the statics
\* (the Engine) are initialised and before any block is allocated, and hands
\* no buffer to the host; every other call passes the check without an
\* error.  This holds for every call of a sequence.
C1_ThreadCheck ==
    /\ [](outcome = "runtime_error" =>
            /\ ~openmp /\ args.num_threads > 1
            /\ pc = "idle" /\ result = NULL /\ m_x = NULL /\ cnt = NoCnt)
    /\ [][ncalls' = ncalls + 1 =>
            IF ~openmp /\ args'.num_threads > 1
            THEN /\ outcome' = "runtime_error" /\ pc' = "idle"
                 /\ result' = NULL /\ cnt' = NoCnt
                 /\ UNCHANGED <<statics, heap, owned>>
            ELSE outcome' = "running" /\ pc' = "statics"]_vars

\* a second call is rejected after a first call that ran and allocated
C1_Witness ==
    /\ outcome = "runtime_error" /\ ncalls = 2
    /\ statics_guard /\ Len(heap) = 1

\* C2: in every run of every sequence of calls, the length of the buffer
\* handed to the Driver equals the parameter count of the Engine instance
\* that initialises it and computes its gradient.
C2_BufferMatchesEngine ==
    (m_x # NULL /\ pc \in {"lbfgs", "evaluate", "driver", "progress",
                           "progressed", "run_return", "backend_return"})
        => BigOf(heap[m_x].len) = numParams(plmdca_inst)

\* C3: for every sequence length and state count, total_num_params equals
\* the exact value L*Q + L*(L-1)/2*Q^2.
C3_ExactCount ==
    pc = "run" =>
        /\ N >= 0
        /\ BigOf(N) = ExactN(args.seqs_len, args.num_site_states)

\* C4: a call with max_iteration = 0 makes the initial evaluation and no
\* descent step, so the buffer it returns holds the output of
\* initFieldsAndCouplings.
C4_ZeroIterations ==
    (pc = "backend_return" /\ args.max_iteration = 0 /\ m_x # NULL)
        => /\ cnt.evaluate = 1 /\ cnt.progress = 0
           /\ heap[m_x].content = "init"

\* C5: in every call of a sequence, the iteration cap configured on the
\* Driver equals the max_iteration argument of that call.
C5_IterationCap ==
    pc \in {"lbfgs", "evaluate", "driver", "progress", "progressed",
            "run_return"}
        => param.max_iterations = args.max_iteration

\* C6 as stated: whenever run returns, with any status code, the buffer of
\* the accessor is non-null, initialised by the Engine and of N entries.
C6_AnyStatus ==
    pc = "backend_return" =>
        /\ getFieldsAndCouplings # NULL
        /\ cnt.init = 1
        /\ heap[m_x].len = N
        /\ heap[m_x].content \in {"init", "stepped"}

\* C6 amended: whenever run returns a status of the Driver (the allocation
\* succeeded), the buffer of the accessor, which plmdcaBackend returns, is
\* non-null, allocated, of the N entries passed to run, and has been passed
\* to initFieldsAndCouplings once.
C6_DriverStatus ==
    /\ (pc = "backend_return" /\ cnt.lbfgs = 1) =>
          /\ getFieldsAndCouplings # NULL
          /\ cnt.init = 1
          /\ N >= 0 /\ heap[m_x].len = N
          /\ heap[m_x].state = "live"
          /\ heap[m_x].content \in {"init", "stepped"}
    /\ (outcome = "returned" /\ cnt.lbfgs = 1) =>
          /\ result # NULL
          /\ heap[result].state = "live"
          /\ heap[result].content \in {"init", "stepped"}

\* run is about to return a non-success status of the Driver
C6_Witness ==
    /\ pc = "backend_return" /\ cnt.lbfgs = 1
    /\ ret = LBFGSERR_MAXIMUMLINESEARCH /\ m_x # NULL

\* C7: when the buffer cannot be allocated, run reports the error and
\* returns without initialising, without the Driver and without any
\* callback, and plmdcaBackend returns NULL.
C7_AllocFailure ==
    /\ cnt.alloc = 0 =>
          /\ pc \in {"idle", "statics", "run", "backend_return"}
          /\ cnt.init = 0 /\ cnt.lbfgs = 0
          /\ cnt.evaluate = 0 /\ cnt.progress = 0
    /\ (pc = "backend_return" /\ cnt.alloc = 0) =>
          /\ m_x = NULL /\ ret = 1
          /\ "ERROR: Failed to allocate" \in out
    /\ (outcome = "returned" /\ cnt.alloc = 0) =>
          /\ result = NULL
          /\ "ERROR: Failed to allocate" \in out

\* a call returned after its allocation failed
C7_Witness ==
    /\ outcome = "returned" /\ cnt.alloc = 0 /\ result = NULL
    /\ cnt.lbfgs = 0 /\ cnt.evaluate = 0

\* C8: freeFieldsAndCouplings(NULL) releases nothing, changes no state of
\* the program and ends normally, wherever it occurs in a sequence of calls.
C8_ReleaseNull ==
    [][(pc = "idle" /\ pc' = "idle" /\ ncalls' = ncalls /\ free_arg' = NULL)
          => /\ outcome' = "released"
             /\ UNCHANGED <<statics, heap, heap_ok, owned, frame, result>>]_vars

\* a null release made while the host holds a live result
C8_Witness ==
    /\ outcome = "released" /\ free_arg = NULL
    /\ owned # {}

\* C9: with each handle released at most once, every buffer plmdcaBackend
\* returns is a new block, distinct from the results the host holds; it
\* stays allocated until the host's freeFieldsAndCouplings on its handle,
\* and that call releases it, once.
C9_Ownership ==
    /\ [](/\ \A h \in owned :
               /\ h \in DOMAIN heap
               /\ heap[h].state = "live" /\ heap[h].releases = 0
          /\ \A i \in DOMAIN heap :
               /\ heap[i].releases <= 1
               /\ (heap[i].state = "freed") <=> (heap[i].releases = 1)
          /\ (outcome = "returned" /\ result # NULL) => result \in owned)
    /\ [][/\ (pc = "backend_return" /\ pc' = "idle" /\ result' # NULL)
               => result' \notin owned
          /\ \A i \in DOMAIN heap :
               (heap[i].state = "live" /\ heap'[i].state # "live")
                  => /\ pc = "idle" /\ outcome' = "released"
                     /\ free_arg' = i /\ i \in owned
                     /\ heap'[i].state = "freed"]_vars

\* one result has been released and another is still held
C9_Witness ==
    /\ \E i \in DOMAIN heap : heap[i].state = "freed"
    /\ owned # {}

\* C10: the status run returns is what the host receives from the call.
C10_StatusReported ==
    [][(pc = "backend_return" /\ pc' = "idle") => status_out' = <<ret>>]_vars

\* C11: a call returns the Parameter Vector that a call with the same
\* arguments returns as the first call of a new process: the vector is
\* computed by an Engine built from the arguments of the call, over its
\* parameter count, under the iteration cap of the call.
C11_SameResult ==
    (pc = "backend_return" /\ m_x # NULL) =>
        /\ heap[m_x].engine = PlmDCA(args)
        /\ heap[m_x].cap = args.max_iteration
        /\ heap[m_x].written = BigOf(heap[m_x].len)

\* C12: verbosity changes only the diagnostic stream.  logging is read by
\* progress and by the report of run, and by nothing else: whatever step
\* either of them takes, it takes with either value of logging, to the same
\* counters, position, status, buffer and heap, with some diagnostic stream.
C12_VerbosityObservational ==
    [][ /\ progress =>
             \A lg \in BOOLEAN : \E o \in SUBSET Diagnostics : progress_at(lg, o)
        /\ run_return =>
             \A lg \in BOOLEAN : \E o \in SUBSET Diagnostics : run_return_at(lg, o)
      ]_vars

\* a verbose run that has made progress callbacks and printed its report
C12_Witness ==
    /\ pc = "backend_return" /\ logging /\ cnt.progress >= 1
    /\ {"Iteration", "L-BFGS optimization terminated"} \subseteq out

\* C15: the progress callback changes neither the buffer, the heap, the
\* Driver's parameters and indices nor the statics, and returns 0 whether or
\* not it prints; the Driver is never cancelled.
C15_ProgressFrame ==
    /\ [][pc = "progress" =>
            /\ prog_ret' = 0
            /\ pc' = "progressed"
            /\ UNCHANGED <<statics, args, N, m_x, param, ret, k, ls, heap,
                           heap_ok, host>>]_vars
    /\ [](prog_ret = 0 /\ ret # LBFGSERR_CANCELED)

\* a verbose progress callback has printed and returned
C15_Witness ==
    pc = "progressed" /\ logging /\ "Iteration" \in out /\ prog_ret = 0

\* C14: an evaluation callback always returns to the Driver, whether or not
\* the Engine's gradient raises, and no call ends with an exception of the
\* gradient at the host.
C14_FailureContained ==
    /\ [][pc = "evaluate" => pc' = "driver"]_vars
    /\ [](outcome # "exception")

\* C13 as stated: during a run the phase stays or moves to the next one of
\* UNINITIALIZED, BUFFER_ALLOCATED, INITIALIZED, OPTIMIZING, TERMINATED;
\* initialization happens once, between BUFFER_ALLOCATED and INITIALIZED;
\* callbacks happen in OPTIMIZING only; every run in OPTIMIZING or TERMINATED
\* has allocated once and initialized once; TERMINATED allocates, initializes
\* and calls back nothing.
C13_PhaseOrder ==
    /\ [][(Phase # 0 /\ Phase' # 0) => Phase' \in {Phase, Phase + 1}]_vars
    /\ [][(Phase # 0 /\ cnt'.init # cnt.init) =>
            /\ PhaseName(Phase) = "BUFFER_ALLOCATED"
            /\ PhaseName(Phase') = "INITIALIZED"
            /\ cnt.alloc = 1 /\ cnt.init = 0 /\ cnt.evaluate = 0]_vars
    /\ [][(Phase # 0 /\ (cnt'.evaluate # cnt.evaluate
                          \/ cnt'.progress # cnt.progress)) =>
            PhaseName(Phase) = "OPTIMIZING"]_vars
    /\ [][Phase = 5 => UNCHANGED <<cnt, heap>> /\ Phase' \in {0, 5}]_vars
    /\ [](Phase \in {4, 5} => cnt.alloc = 1 /\ cnt.init = 1)

\* C13, amended: the same, for the runs whose allocation succeeds; a run
\* whose allocation fails goes from UNINITIALIZED to TERMINATED with a NULL
\* buffer, and initializes and calls back nothing.
C13_PhaseOrderAllocated ==
    /\ [][(Phase # 0 /\ Phase' # 0) =>
            \/ Phase' \in {Phase, Phase + 1}
            \/ Phase = 1 /\ Phase' = 5 /\ m_x' = NULL /\ cnt' = NoCnt]_vars
    /\ [][(Phase # 0 /\ cnt'.init # cnt.init) =>
            /\ PhaseName(Phase) = "BUFFER_ALLOCATED"
            /\ PhaseName(Phase') = "INITIALIZED"
            /\ cnt.alloc = 1 /\ cnt.init = 0 /\ cnt.evaluate = 0]_vars
    /\ [][(Phase # 0 /\ (cnt'.evaluate # cnt.evaluate
                          \/ cnt'.progress # cnt.progress)) =>
            PhaseName(Phase) = "OPTIMIZING"]_vars
    /\ [][Phase = 5 => UNCHANGED <<cnt, heap>> /\ Phase' \in {0, 5}]_vars
    /\ [](Phase = 4 => cnt.alloc = 1 /\ cnt.init = 1)
    /\ []((Phase = 5 /\ m_x # NULL) => cnt.alloc = 1 /\ cnt.init = 1)
    /\ []((Phase = 5 /\ m_x = NULL) => cnt = NoCnt)

\* a run has gone through all five phases, with callbacks of both kinds
C13_Witness ==
    /\ PhaseName(Phase) = "TERMINATED" /\ m_x # NULL
    /\ cnt.alloc = 1 /\ cnt.init = 1 /\ cnt.evaluate >= 2 /\ cnt.progress >= 1

\* C16: a run whose allocation succeeded makes at most one evaluation and no
\* progress callback when max_iteration = 0, and at most max_iteration
\* progress callbacks and 1 + max_iteration * max_linesearch evaluations
\* when max_iteration >= 1: it ends within that many returning evaluations.
C16_BoundedRun ==
    (Phase \in {4, 5} /\ m_x # NULL) =>
        /\ cnt.progress <= args.max_iteration
        /\ cnt.evaluate <= 1 + args.max_iteration * max_linesearch

\* C17: the callbacks of a run are sequential.  An evaluation starts from the
\* Driver only, never from inside an evaluation or a progress callback; the
\* progress callback of iteration k starts from the Driver after an
\* evaluation of iteration k has returned, and exactly k - 1 progress
\* callbacks precede it; the first callback of a run is an evaluation.
C17_Sequential ==
    /\ [][(pc' = "evaluate" /\ pc # "evaluate") =>
            pc \in {"lbfgs", "driver", "progressed"}]_vars
    /\ [][(pc' = "progress" /\ pc # "progress") =>
            /\ pc = "driver" /\ k >= 1 /\ ls >= 1
            /\ cnt.progress = k - 1
            /\ cnt.evaluate >= k + 1]_vars
    /\ [](pc \in {"progress", "progressed"} => cnt.evaluate >= 2)
    /\ []((Phase # 0 /\ cnt.evaluate = 0) => cnt.progress = 0)

\* the progress callback of the second iteration is about to run
C17_Witness ==
    pc = "progress" /\ k = 2 /\ cnt.progress = 1 /\ cnt.evaluate >= 3

\* C18: every block that has been released was released by the deallocator
\* that pairs with the allocator it came from.
C18_PairedRelease ==
    \A h \in DOMAIN heap :
        heap[h].state = "freed" => heap[h].dealloc = Deallocator(heap[h].alloc)

(***************************************************************************)
(* The parameter count alone: a call that has passed the thread check,     *)
(* for a wider range of sequence lengths and state counts; its only step   *)
(* is lines 47-50.                                                         *)
(***************************************************************************)
InitParams ==
    /\ openmp \in BOOLEAN
    /\ statics_guard = FALSE
    /\ plmdca_inst = NoInst
    /\ num_iterations = 0
    /\ logging = FALSE
    /\ pc = "statics"
    /\ args \in ParamConfigs
    /\ N = 0
    /\ m_x = NULL
    /\ param = NoParam
    /\ ret = 0
    /\ k = 0
    /\ ls = 0
    /\ prog_ret = 0
    /\ heap = <<>>
    /\ heap_ok = TRUE
    /\ owned = {}
    /\ result = NULL
    /\ outcome = "running"
    /\ status_out = NoStatus
    /\ ncalls = 1
    /\ free_arg = NULL
    /\ cnt = NoCnt
    /\ out = {}

NextParams == InitStatics

SpecParams == InitParams /\ [][NextParams]_vars
====
